---- MODULE Spec2Model ----
(***************************************************************************)
(* subfs: a read-only FUSE view of a Subsonic library.                     *)
(*                                                                         *)
(* Part I models SubFile.ReadAll and the local file cache (fileCache,      *)
(* cacheTotal): one background goroutine per read, the requester's select  *)
(* on byteChan / intr, and the temporary backing files on disk.            *)
(* Part II models the index refresher cacheIndexes and the directory tree  *)
(* (SubDir.ReadDir, SubDir.Lookup).                                        *)
(***************************************************************************)
EXTENDS Integers, Sequences, FiniteSets, TLC

\* ------------------------------------------------------------------------
\* Bounds of the model
\* ------------------------------------------------------------------------

\* number of ReadAll calls in one run
MaxReads == 2

\* ------------------------------------------------------------------------
\* Program constants
\* ------------------------------------------------------------------------

\* threshold := 50 (megabytes): files above it are never cached
threshold == 50

\* -cache flag default, in megabytes
DefaultCacheSize == 100

MB == 1024 * 1024

\* ------------------------------------------------------------------------
\* Part I: SubFile.ReadAll and the file cache
\* ------------------------------------------------------------------------

VARIABLES
    cacheSize,    \* *cacheSize: the configured budget in megabytes
    fileCache,    \* fileCache: FileName -> [path, size]; path is the os.File's
                  \* name, size the Size of the SubFile that registered it
    cacheTotal,   \* cacheTotal
    tmp,          \* the temporary files on disk: path -> bytes
    panicked,     \* the process died of a runtime panic
    s,            \* s[r]: the SubFile read r was called on
    pc,           \* pc[r]: position of read r's background goroutine
    req,          \* req[r]: the requester: "none", "waiting" (in select), "returned"
    res,          \* res[r]: what ReadAll returned: [data, err]
    cFile,        \* cFile[r]: the cache record found at line 290
    buf,          \* buf[r]: what ioutil.ReadFile gave
    data,         \* data[r]: what the goroutine sends on byteChan
    new,          \* new[r]: the value atomic.AddInt64 returned
    streamCalls,  \* streamCalls[r]: calls of subsonic.Stream made by read r
    logged,       \* logged[r]: the log lines read r printed
    writes        \* writes[r]: the writes read r made to fileCache / cacheTotal

cacheVars == <<cacheSize, fileCache, cacheTotal, tmp, panicked, s, pc, req, res,
               cFile, buf, data, new, streamCalls, logged, writes>>

\* the state of Part II
VARIABLES
    remoteVer,     \* the version of the remote library
    artistsIndex,  \* artistsIndex: MusicFolder -> sequence of IndexArtist
    ipc,           \* position of the cacheIndexes goroutine
    itodo,         \* the folders its range loop has not visited yet
    icur,          \* the folder whose artists it is appending
    ipend,         \* the artists it has not appended yet
    finished,      \* "Finished caching artists" has been logged
    nodes,         \* the SubDir values: [ID, Root, Folder, dirs, files]
    known,         \* the SubDir values the kernel holds (root, Lookup results)
    cpc,           \* cpc[c]: position of filesystem call c
    cop,           \* cop[c]: the call: [op, node, name]
    cret,          \* cret[c]: what the last call in slot c returned
    listings       \* listings[h]: the last ReadDir run on node h: what it read and gave

treeVars == <<remoteVer, artistsIndex, ipc, itodo, icur, ipend, finished, nodes,
              known, cpc, cop, cret, listings>>

Reads == 1..MaxReads

NoFile == [ID |-> 0, FileName |-> "", Size |-> 0]
NoRecord == [path |-> 0, size |-> 0]
NoResult == [data |-> <<-2>>, err |-> "none"]
\* a nil []byte
NIL == <<-1>>

\* The SubFile values reads are called on.  fileA and fileB carry the same
\* FileName (two directories holding the same derived name), fileB is above
\* the 50 MB threshold, fileC has no size, fileD is exactly 50 MB.
fileA == [ID |-> 1, FileName |-> "x", Size |-> 30 * MB]
fileB == [ID |-> 2, FileName |-> "x", Size |-> 50 * MB + 1]
fileC == [ID |-> 3, FileName |-> "y", Size |-> 0]
fileD == [ID |-> 4, FileName |-> "z", Size |-> 50 * MB]

Files == {fileA, fileB, fileC, fileD}

\* the budgets the runs are configured with
CacheSizes == {30, DefaultCacheSize}

\* what the remote stream of a file holds
RemoteBytes(f) == IF f.Size = 0 THEN <<>> ELSE <<f.ID>>

\* the outcomes of subsonic.Stream, ioutil.ReadAll(stream), stream.Close()
StreamOutcomes == {"openErr", "readErr", "closeErr", "ok"}

\* *cacheSize*1024*1024
Budget == cacheSize * 1024 * 1024

\* cacheTotal > *cacheSize*1024*1024
CacheFull(total) == total > Budget

\* (mutant) the overflow check forgets the size of the file
WillOverflow_IgnoresSize(total, size) == total > Budget

\* cacheTotal+s.Size > *cacheSize*1024*1024
WillOverflow(total, size) == total + size > Budget

\* s.Size > int64(threshold*1024*1024)
TooLarge(size) == size > threshold * 1024 * 1024

RECURSIVE SumSizes(_, _)
SumSizes(cache, names) ==
    IF names = {} THEN 0
    ELSE LET n == CHOOSE x \in names : TRUE
         IN  cache[n].size + SumSizes(cache, names \ {n})

\* the sum of the sizes of the records registered in fileCache
CacheSum == SumSizes(fileCache, DOMAIN fileCache)

\* delete(m, k)
MapDelete(m, k) == [x \in (DOMAIN m) \ {k} |-> m[x]]

\* m[k] = v
MapPut(m, k, v) == [x \in (DOMAIN m) \cup {k} |-> IF x = k THEN v ELSE m[x]]

Log(r, line) == logged' = [logged EXCEPT ![r] = @ \cup {line}]

InitCache ==
    /\ cacheSize \in CacheSizes
    /\ fileCache = <<>>
    /\ cacheTotal = 0
    /\ tmp = <<>>
    /\ panicked = FALSE
    /\ s = [r \in Reads |-> NoFile]
    /\ pc = [r \in Reads |-> "idle"]
    /\ req = [r \in Reads |-> "none"]
    /\ res = [r \in Reads |-> NoResult]
    /\ cFile = [r \in Reads |-> NoRecord]
    /\ buf = [r \in Reads |-> <<>>]
    /\ data = [r \in Reads |-> NIL]
    /\ new = [r \in Reads |-> 0]
    /\ streamCalls = [r \in Reads |-> 0]
    /\ logged = [r \in Reads |-> {}]
    /\ writes = [r \in Reads |-> 0]

\* ReadAll is called on f: the goroutine starts, the requester enters select
ReadAll(r, f) ==
    /\ ~panicked
    /\ pc[r] = "idle"
    /\ r > 1 => pc[r - 1] # "idle"
    /\ s' = [s EXCEPT ![r] = f]
    /\ pc' = [pc EXCEPT ![r] = "lookup"]
    /\ req' = [req EXCEPT ![r] = "waiting"]
    /\ UNCHANGED treeVars
    /\ UNCHANGED <<cacheSize, fileCache, cacheTotal, tmp, panicked, res, cFile,
                   buf, data, new, streamCalls, logged, writes>>

\* cFile, ok := fileCache[s.FileName]
Lookup(r) ==
    /\ ~panicked
    /\ pc[r] = "lookup"
    /\ IF s[r].FileName \in DOMAIN fileCache
       THEN /\ cFile' = [cFile EXCEPT ![r] = fileCache[s[r].FileName]]
            /\ pc' = [pc EXCEPT ![r] = "readFile"]
       ELSE /\ pc' = [pc EXCEPT ![r] = "stream"]
            /\ UNCHANGED cFile
    /\ UNCHANGED treeVars
    /\ UNCHANGED <<cacheSize, fileCache, cacheTotal, tmp, panicked, s, req, res,
                   buf, data, new, streamCalls, logged, writes>>

\* ioutil.ReadFile(name): the bytes and the error.  An absent file gives
\* "no such file or directory", any other file its bytes and no error.
ReadFileResult(disk, path) ==
    IF path \in DOMAIN disk
    THEN [buf |-> disk[path], err |-> "nil"]
    ELSE [buf |-> <<>>, err |-> "no such file or directory"]

\* (mutant) every readable backing file is taken for a wiped one
CacheCheck_PurgesReadable(b, err) ==
    IF Len(b) = 0 /\ err = "nil" THEN "panic" ELSE "purge"

\* if len(buf) == 0 && strings.Contains(err.Error(), "no such file or directory")
\* err.Error() is evaluated whenever len(buf) == 0, and panics on a nil err
CacheCheck(b, err) ==
    IF Len(b) # 0 THEN "hit"
    ELSE IF err = "nil" THEN "panic"
    ELSE IF err = "no such file or directory" THEN "purge"
    ELSE "hit"

\* buf, err := ioutil.ReadFile(cFile.Name()) and the branch on it
ReadFile(r) ==
    /\ ~panicked
    /\ pc[r] = "readFile"
    /\ LET got == ReadFileResult(tmp, cFile[r].path)
           way == CacheCheck(got.buf, got.err)
       IN  /\ buf' = [buf EXCEPT ![r] = got.buf]
           /\ IF way = "purge"
              THEN /\ pc' = [pc EXCEPT ![r] = "purge"]
                   /\ Log(r, "Cache missing")
                   /\ UNCHANGED <<panicked, data>>
              ELSE IF way = "panic"
              THEN /\ pc' = [pc EXCEPT ![r] = "panic"]
                   /\ panicked' = TRUE
                   /\ UNCHANGED <<logged, data>>
              ELSE /\ pc' = [pc EXCEPT ![r] = "sendHit"]
                   /\ data' = [data EXCEPT ![r] = got.buf]
                   /\ Log(r, "Cached file")
                   /\ UNCHANGED panicked
    /\ UNCHANGED treeVars
    /\ UNCHANGED <<cacheSize, fileCache, cacheTotal, tmp, s, req, res, cFile,
                   new, streamCalls, writes>>

\* delete(fileCache, s.FileName)
Purge(r) ==
    /\ ~panicked
    /\ pc[r] = "purge"
    /\ fileCache' = MapDelete(fileCache, s[r].FileName)
    /\ writes' = [writes EXCEPT ![r] = @ + 1]
    /\ pc' = [pc EXCEPT ![r] = "subAdd"]
    /\ UNCHANGED treeVars
    /\ UNCHANGED <<cacheSize, cacheTotal, tmp, panicked, s, req, res, cFile, buf,
                   data, new, streamCalls, logged>>

\* atomic.AddInt64(&cacheTotal, -1 * s.Size)
SubAdd(r) ==
    /\ ~panicked
    /\ pc[r] = "subAdd"
    /\ cacheTotal' = cacheTotal - s[r].Size
    /\ new' = [new EXCEPT ![r] = cacheTotal - s[r].Size]
    /\ writes' = [writes EXCEPT ![r] = @ + 1]
    /\ pc' = [pc EXCEPT ![r] = "subStore"]
    /\ UNCHANGED treeVars
    /\ UNCHANGED <<cacheSize, fileCache, tmp, panicked, s, req, res, cFile, buf,
                   data, streamCalls, logged>>

\* cacheTotal = <the value AddInt64 returned>, then cFile.Close()
SubStore(r) ==
    /\ ~panicked
    /\ pc[r] = "subStore"
    /\ cacheTotal' = new[r]
    /\ pc' = [pc EXCEPT ![r] = "stream"]
    /\ UNCHANGED treeVars
    /\ UNCHANGED <<cacheSize, fileCache, tmp, panicked, s, req, res, cFile, buf,
                   data, new, streamCalls, logged, writes>>

\* subsonic.Stream(s.ID, nil), ioutil.ReadAll(stream), stream.Close()
Stream(r) ==
    /\ ~panicked
    /\ pc[r] = "stream"
    /\ streamCalls' = [streamCalls EXCEPT ![r] = @ + 1]
    /\ \E o \in StreamOutcomes :
         IF o = "ok"
         THEN /\ data' = [data EXCEPT ![r] = RemoteBytes(s[r])]
              /\ pc' = [pc EXCEPT ![r] = "sendFile"]
              /\ logged' = [logged EXCEPT ![r] = @ \cup {"Opening stream", "Closing stream"}]
         ELSE /\ data' = [data EXCEPT ![r] = NIL]
              /\ pc' = [pc EXCEPT ![r] = "sendNil"]
              /\ logged' = [logged EXCEPT ![r] = @ \cup {"Opening stream", o}]
    /\ UNCHANGED treeVars
    /\ UNCHANGED <<cacheSize, fileCache, cacheTotal, tmp, panicked, s, req, res,
                   cFile, buf, new, writes>>

\* byteChan <- ... meets case stream := <-byteChan: return stream, nil
Deliver(r) ==
    /\ ~panicked
    /\ pc[r] \in {"sendHit", "sendNil", "sendFile"}
    /\ req[r] = "waiting"
    /\ res' = [res EXCEPT ![r] = [data |-> data[r], err |-> "nil"]]
    /\ req' = [req EXCEPT ![r] = "returned"]
    /\ pc' = [pc EXCEPT ![r] = IF pc[r] = "sendFile" THEN "chkFull" ELSE "done"]
    /\ UNCHANGED treeVars
    /\ UNCHANGED <<cacheSize, fileCache, cacheTotal, tmp, panicked, s, cFile, buf,
                   data, new, streamCalls, logged, writes>>

\* case <-intr: return nil, fuse.EINTR
Interrupt(r) ==
    /\ ~panicked
    /\ req[r] = "waiting"
    /\ res' = [res EXCEPT ![r] = [data |-> NIL, err |-> "EINTR"]]
    /\ req' = [req EXCEPT ![r] = "returned"]
    /\ UNCHANGED treeVars
    /\ UNCHANGED <<cacheSize, fileCache, cacheTotal, tmp, panicked, s, pc, cFile,
                   buf, data, new, streamCalls, logged, writes>>

\* if cacheTotal > *cacheSize*1024*1024 { return }
ChkFull(r) ==
    /\ ~panicked
    /\ pc[r] = "chkFull"
    /\ IF CacheFull(cacheTotal)
       THEN /\ pc' = [pc EXCEPT ![r] = "done"]
            /\ Log(r, "Cache full")
       ELSE /\ pc' = [pc EXCEPT ![r] = "chkOverflow"]
            /\ UNCHANGED logged
    /\ UNCHANGED treeVars
    /\ UNCHANGED <<cacheSize, fileCache, cacheTotal, tmp, panicked, s, req, res,
                   cFile, buf, data, new, streamCalls, writes>>

\* if cacheTotal+s.Size > *cacheSize*1024*1024 { return }
\* if s.Size > int64(threshold*1024*1024) { return }
ChkOverflow(r) ==
    /\ ~panicked
    /\ pc[r] = "chkOverflow"
    /\ IF WillOverflow(cacheTotal, s[r].Size)
       THEN /\ pc' = [pc EXCEPT ![r] = "done"]
            /\ Log(r, "File will overflow cache")
       ELSE IF TooLarge(s[r].Size)
       THEN /\ pc' = [pc EXCEPT ![r] = "done"]
            /\ Log(r, "File too large")
       ELSE /\ pc' = [pc EXCEPT ![r] = "tempFile"]
            /\ UNCHANGED logged
    /\ UNCHANGED treeVars
    /\ UNCHANGED <<cacheSize, fileCache, cacheTotal, tmp, panicked, s, req, res,
                   cFile, buf, data, new, streamCalls, writes>>

\* ioutil.TempFile(os.TempDir(), "subfs") and tmpFile.Write(file).  The file
\* of read r is named r.  TempFile may fail (no file); Write may fail (the
\* empty file stays on disk).
TempFile(r) ==
    /\ ~panicked
    /\ pc[r] = "tempFile"
    /\ \E o \in {"tempErr", "writeErr", "ok"} :
         /\ tmp' = IF o = "tempErr" THEN tmp
                   ELSE MapPut(tmp, r, IF o = "ok" THEN data[r] ELSE <<>>)
         /\ pc' = [pc EXCEPT ![r] = IF o = "ok" THEN "register" ELSE "done"]
         /\ IF o = "ok" THEN UNCHANGED logged ELSE Log(r, o)
    /\ UNCHANGED treeVars
    /\ UNCHANGED <<cacheSize, fileCache, cacheTotal, panicked, s, req, res, cFile,
                   buf, data, new, streamCalls, writes>>

\* fileCache[s.FileName] = *tmpFile
Register(r) ==
    /\ ~panicked
    /\ pc[r] = "register"
    /\ fileCache' = MapPut(fileCache, s[r].FileName, [path |-> r, size |-> s[r].Size])
    /\ writes' = [writes EXCEPT ![r] = @ + 1]
    /\ Log(r, "Caching file")
    /\ pc' = [pc EXCEPT ![r] = "addAdd"]
    /\ UNCHANGED treeVars
    /\ UNCHANGED <<cacheSize, cacheTotal, tmp, panicked, s, req, res, cFile, buf,
                   data, new, streamCalls>>

\* atomic.AddInt64(&cacheTotal, s.Size)
AddAdd(r) ==
    /\ ~panicked
    /\ pc[r] = "addAdd"
    /\ cacheTotal' = cacheTotal + s[r].Size
    /\ new' = [new EXCEPT ![r] = cacheTotal + s[r].Size]
    /\ writes' = [writes EXCEPT ![r] = @ + 1]
    /\ pc' = [pc EXCEPT ![r] = "addStore"]
    /\ UNCHANGED treeVars
    /\ UNCHANGED <<cacheSize, fileCache, tmp, panicked, s, req, res, cFile, buf,
                   data, streamCalls, logged>>

\* cacheTotal = <the value AddInt64 returned>
AddStore(r) ==
    /\ ~panicked
    /\ pc[r] = "addStore"
    /\ cacheTotal' = new[r]
    /\ pc' = [pc EXCEPT ![r] = "done"]
    /\ UNCHANGED treeVars
    /\ UNCHANGED <<cacheSize, fileCache, tmp, panicked, s, req, res, cFile, buf,
                   data, new, streamCalls, logged, writes>>

\* a temporary file is removed from outside the program
RemoveBacking(p) ==
    /\ ~panicked
    /\ p \in DOMAIN tmp
    /\ tmp' = MapDelete(tmp, p)
    /\ UNCHANGED treeVars
    /\ UNCHANGED <<cacheSize, fileCache, cacheTotal, panicked, s, pc, req, res,
                   cFile, buf, data, new, streamCalls, logged, writes>>

\* ------------------------------------------------------------------------
\* Part II: the index refresher and the directory tree
\* ------------------------------------------------------------------------

\* Strings are sequences of one-character strings.

Digit(n) == <<"0", "1", "2", "3", "4", "5", "6", "7", "8", "9">>[n + 1]

\* fmt "%02d" of a number below 100
Pad2(n) == <<Digit(n \div 10), Digit(n % 10)>>

\* fmt "%d" of a number below 100
Decimal(n) == IF n < 10 THEN <<Digit(n)>> ELSE <<Digit(n \div 10), Digit(n % 10)>>

\* badChars := []string{"/", "\\"}
badChars == {"/", "\\"}

\* for _, b := range badChars { x = strings.Replace(x, b, "_", -1) }
Sanitize(str) == [i \in 1..Len(str) |-> IF str[i] \in badChars THEN "_" ELSE str[i]]

\* the remote library, in the two versions the runs see
folderM == [ID |-> 1, Name |-> <<"M">>]
folderN == [ID |-> 2, Name |-> <<"N">>]

artistA == [ID |-> 10, Name |-> <<"a">>]
artistB == [ID |-> 11, Name |-> <<"b", "/", "c">>]
artistD == [ID |-> 12, Name |-> <<"d">>]

flac == <<"f", "l", "a", "c">>
mp3 == <<"m", "p", "3">>
mkv == <<"m", "k", "v">>

\* audio1 has a transcode; audio2 and audio4 render to one filename;
\* audio3 has a title with a path separator
audio1 == [ID |-> 30, Track |-> 1, Artist |-> <<"a">>, Title |-> <<"t">>,
           Suffix |-> flac, TranscodedSuffix |-> mp3, Size |-> 4096,
           DurationRaw |-> 3, CoverArt |-> 5]
audio2 == [ID |-> 31, Track |-> 1, Artist |-> <<"a">>, Title |-> <<"t">>,
           Suffix |-> flac, TranscodedSuffix |-> <<>>, Size |-> 8192,
           DurationRaw |-> 3, CoverArt |-> 5]
audio3 == [ID |-> 32, Track |-> 2, Artist |-> <<"a">>, Title |-> <<"u", "/", "v">>,
           Suffix |-> mp3, TranscodedSuffix |-> <<>>, Size |-> 1024,
           DurationRaw |-> 1, CoverArt |-> 5]
audio4 == [ID |-> 33, Track |-> 1, Artist |-> <<"a">>, Title |-> <<"t">>,
           Suffix |-> flac, TranscodedSuffix |-> <<>>, Size |-> 2048,
           DurationRaw |-> 3, CoverArt |-> 5]
video1 == [ID |-> 40, Title |-> <<"w">>, Suffix |-> mkv, Size |-> 2048, CoverArt |-> 6]
subdir1 == [ID |-> 20, Title |-> <<"x", "/", "y">>, CoverArt |-> 5]

EmptyContent == [Directories |-> <<>>, Audio |-> <<>>, Video |-> <<>>]

\* subsonic.GetMusicFolders()
RemoteFolders(ver) == IF ver = 1 THEN <<folderM>> ELSE <<folderM, folderN>>

\* subsonic.GetIndexes(folder.ID, -1), the artists of all its letters in order
RemoteArtists(folder, ver) ==
    IF folder = folderM THEN <<artistA, artistB>> ELSE <<artistD>>

\* subsonic.GetMusicDirectory(id)
RemoteDirectory(id, ver) ==
    IF id = 10 /\ ver = 1
    THEN [Directories |-> <<>>, Audio |-> <<audio2, audio4>>, Video |-> <<video1>>]
    ELSE IF id = 10
    THEN [Directories |-> <<subdir1>>, Audio |-> <<audio1, audio3>>, Video |-> <<>>]
    ELSE EmptyContent

\* ------------------------------------------------------------------------
\* Bounds of Part II
\* ------------------------------------------------------------------------

\* SubDir values the kernel ever holds in one run
MaxNodes == 3

\* filesystem calls in flight at once
MaxCalls == 2

Calls == 1..MaxCalls

\* positions in nodes
Handles == 1..MaxNodes

\* NewSubDir(ID, Root, Folder)
NewSubDir(ID, Root, Folder) ==
    [ID |-> ID, Root |-> Root, Folder |-> Folder, dirs |-> <<>>, files |-> <<>>]

NoFolder == [ID |-> 0, Name |-> <<>>]
NoListing == [in |-> <<>>, again |-> FALSE, err |-> "none", out |-> {},
              dkeys |-> {}, fkeys |-> {}]
NoCall == [op |-> "none", node |-> 0, name |-> <<>>]
NoReturn == [op |-> "none", node |-> 0, entries |-> <<>>, err |-> "none",
             name |-> <<>>, found |-> <<>>, waited |-> FALSE]

\* the names Lookup is called with: children the library gives, and a name
\* that is nowhere
LookupNames ==
    { <<"M">>, <<"a">>, <<"b", "/", "c">>,
      <<"0", "1", " ", "-", " ", "a", " ", "-", " ", "t", ".", "f", "l", "a", "c">>,
      <<"?">> }

InitTree ==
    /\ remoteVer = 1
    /\ artistsIndex = <<>>
    /\ ipc = "folders"
    /\ itodo = <<>>
    /\ icur = NoFolder
    /\ ipend = <<>>
    /\ finished = FALSE
    /\ nodes = <<NewSubDir(-1, TRUE, FALSE)>>
    /\ known = {1}
    /\ cpc = [c \in Calls |-> "idle"]
    /\ cop = [c \in Calls |-> NoCall]
    /\ cret = [c \in Calls |-> NoReturn]
    /\ listings = <<NoListing>>

\* ---- SubDir.ReadDir ----

\* a fuse.Dirent
Dirent(name, type) == [Name |-> name, Type |-> type]

\* what one ReadDir run builds: the directories slice, the node's two maps,
\* the cover art set
StartListing(d) ==
    [entries |-> <<>>, dirs |-> d.dirs, files |-> d.files, cover |-> {}]

EmitDir_OnceOnly(acc, name, sub) ==
    IF name \in DOMAIN acc.dirs THEN acc
    ELSE [acc EXCEPT !.dirs = MapPut(@, name, [ref |-> 0, sub |-> sub]),
                     !.entries = Append(@, Dirent(name, "DT_Dir"))]

\* d.dirs[name] = NewSubDir(...); directories = append(directories, dir)
\* A SubDir value is a pair of maps of its own.  Until a Lookup hands the
\* value to the kernel nothing can tell it from another new value of the
\* same fields, so it takes its place in nodes (ref) at that Lookup.
EmitDir(acc, name, sub) ==
    [acc EXCEPT !.dirs = MapPut(@, name, [ref |-> 0, sub |-> sub]),
                !.entries = Append(@, Dirent(name, "DT_Dir"))]

\* d.files[dir.Name] = SubFile{...}; directories = append(directories, dir)
EmitFile(acc, name, file) ==
    [acc EXCEPT !.files = MapPut(@, name, file),
                !.entries = Append(@, Dirent(name, "DT_File"))]

\* the keys of artistsIndex, in the order of their IDs (a map range has no
\* fixed order; the listing is read as a set)
RECURSIVE FoldersInOrder(_)
FoldersInOrder(S) ==
    IF S = {} THEN <<>>
    ELSE LET m == CHOOSE f \in S : \A g \in S : f.ID <= g.ID
         IN  <<m>> \o FoldersInOrder(S \ {m})

RECURSIVE IdsInOrder(_)
IdsInOrder(S) ==
    IF S = {} THEN <<>>
    ELSE LET m == CHOOSE x \in S : \A y \in S : x <= y
         IN  <<m>> \o IdsInOrder(S \ {m})

\* for folder, _ := range artistsIndex { d.dirs[folder.Name] = NewSubDir(folder.ID, false, true) ... }
RECURSIVE RootFolders(_, _)
RootFolders(acc, folders) ==
    IF folders = <<>> THEN acc
    ELSE RootFolders(EmitDir(acc, Head(folders).Name,
                             NewSubDir(Head(folders).ID, FALSE, TRUE)),
                     Tail(folders))

\* the root: "All", then one directory per music folder of the index
ListRoot(d, idx) ==
    RootFolders(EmitDir(StartListing(d), <<"A", "l", "l">>, NewSubDir(-1, FALSE, TRUE)),
                FoldersInOrder(DOMAIN idx))

\* for _, a := range artists { d.dirs[a.Name] = NewSubDir(a.ID, false, false) ... }
RECURSIVE FolderArtists(_, _)
FolderArtists(acc, artists) ==
    IF artists = <<>> THEN acc
    ELSE FolderArtists(EmitDir(acc, Head(artists).Name,
                               NewSubDir(Head(artists).ID, FALSE, FALSE)),
                       Tail(artists))

\* for folder, artists := range artistsIndex { if d.ID == folder.ID || d.ID == -1 {...} }
RECURSIVE FolderLoop(_, _, _, _)
FolderLoop(acc, d, idx, folders) ==
    IF folders = <<>> THEN acc
    ELSE LET f == Head(folders)
             next == IF d.ID = f.ID \/ d.ID = -1
                     THEN FolderArtists(acc, idx[f])
                     ELSE acc
         IN  FolderLoop(next, d, idx, Tail(folders))

\* a top-level music folder: one directory per artist of the index
ListFolder(d, idx) ==
    FolderLoop(StartListing(d), d, idx, FoldersInOrder(DOMAIN idx))

\* for _, dir := range content.Directories {...}
RECURSIVE DirectoryLoop(_, _)
DirectoryLoop(acc, dirs) ==
    IF dirs = <<>> THEN acc
    ELSE LET dir == Head(dirs)
             title == Sanitize(dir.Title)
             put == EmitDir(acc, title, NewSubDir(dir.ID, FALSE, FALSE))
         IN  DirectoryLoop([put EXCEPT !.cover = @ \cup {dir.CoverArt}], Tail(dirs))

\* the -filenames default: {{printf "%02d - %s - %s.%s" .A.Track .A.Artist .A.Title .A.Suffix}}
\* executed on the context of audio a and transcode t
ExecuteTemplate(a, t) ==
    [err |-> FALSE,
     out |-> Pad2(a.Track) \o <<" ", "-", " ">> \o a.Artist \o <<" ", "-", " ">>
             \o a.Title \o <<".">> \o a.Suffix]

\* t.size = ((a.DurationRaw * 320) / 8) * 1024
EstimateSize(a) == ((a.DurationRaw * 320) \div 8) * 1024

\* the body of  for _, t := range transcodes
AudioVariant(acc, a, t) ==
    IF t.suffix = <<>> THEN acc
    ELSE LET lossless == t.size # 0
             size == IF t.size = 0 THEN EstimateSize(a) ELSE t.size
             run == ExecuteTemplate(a, t)
             filename == Sanitize(run.out)
             put == EmitFile(acc, filename,
                             [ID |-> a.ID, FileName |-> filename, IsVideo |-> FALSE,
                              IsArt |-> FALSE, Lossless |-> lossless, Size |-> size])
         IN  IF run.err THEN acc
             ELSE [put EXCEPT !.cover = @ \cup {a.CoverArt}]

\* for _, a := range content.Audio {...}: the source, then the transcode
RECURSIVE AudioLoop(_, _)
AudioLoop(acc, audio) ==
    IF audio = <<>> THEN acc
    ELSE LET a == Head(audio)
             first == AudioVariant(acc, a, [suffix |-> a.Suffix, size |-> a.Size])
             second == AudioVariant(first, a, [suffix |-> a.TranscodedSuffix, size |-> 0])
         IN  AudioLoop(second, Tail(audio))

\* for _, v := range content.Video {...}
RECURSIVE VideoLoop(_, _)
VideoLoop(acc, video) ==
    IF video = <<>> THEN acc
    ELSE LET v == Head(video)
             name == Sanitize(v.Title \o <<".">> \o v.Suffix)
             put == EmitFile(acc, name,
                             [ID |-> v.ID, FileName |-> name, IsVideo |-> TRUE,
                              IsArt |-> FALSE, Lossless |-> FALSE, Size |-> v.Size])
         IN  VideoLoop([put EXCEPT !.cover = @ \cup {v.CoverArt}], Tail(video))

\* for _, e := range coverArt.Enumerate() {...}
RECURSIVE CoverLoop(_, _)
CoverLoop(acc, ids) ==
    IF ids = <<>> THEN acc
    ELSE LET name == Decimal(Head(ids)) \o <<".", "j", "p", "g">>
         IN  CoverLoop(EmitFile(acc, name,
                                [ID |-> Head(ids), FileName |-> name, IsVideo |-> FALSE,
                                 IsArt |-> TRUE, Lossless |-> FALSE, Size |-> 0]),
                       Tail(ids))

\* any other directory: the content subsonic.GetMusicDirectory(d.ID) gave
ListDirectory(d, content) ==
    LET a1 == DirectoryLoop(StartListing(d), content.Directories)
        a2 == AudioLoop(a1, content.Audio)
        a3 == VideoLoop(a2, content.Video)
    IN  CoverLoop(a3, IdsInOrder(a3.cover))

\* one run of d.ReadDir, past the wait of the root: [entries, err, dirs,
\* files]; ok says whether subsonic.GetMusicDirectory succeeded
RunReadDir(d, idx, ver, ok) ==
    LET acc == IF d.Root THEN ListRoot(d, idx)
               ELSE IF d.Folder THEN ListFolder(d, idx)
               ELSE ListDirectory(d, RemoteDirectory(d.ID, ver))
    IN  IF ~d.Root /\ ~d.Folder /\ ~ok
        THEN [entries |-> <<>>, err |-> "ENOENT", dirs |-> d.dirs, files |-> d.files]
        ELSE [entries |-> acc.entries, err |-> "nil", dirs |-> acc.dirs,
              files |-> acc.files]

MustWait_Never(idx) == FALSE

\* if len(artistsIndex) == 0 { <-indexChan }
MustWait(idx) == DOMAIN idx = {}

\* if len(d.dirs) == 0 && len(d.files) == 0 { d.ReadDir(intr) }
NeedsLoad(d) == DOMAIN d.dirs = {} /\ DOMAIN d.files = {}

\* content, err := subsonic.GetMusicDirectory(d.ID): whether err is nil, in
\* a run of ReadDir that gets to the fetch
FetchOutcomes(d, load) ==
    IF load /\ ~d.Root /\ ~d.Folder THEN BOOLEAN ELSE {TRUE}

\* the three returns of SubDir.Lookup
Resolve(dirs, files, name) ==
    IF name \in DOMAIN dirs THEN [err |-> "nil", found |-> <<"dir", dirs[name]>>]
    ELSE IF name \in DOMAIN files THEN [err |-> "nil", found |-> <<"file", files[name]>>]
    ELSE [err |-> "ENOENT", found |-> <<>>]

Range(seq) == {seq[i] : i \in 1..Len(seq)}

\* what one ReadDir run on d reads: the folders of the index (root), the
\* artists of its folders (a music folder), the remote directory and
\* whether the fetch succeeded (any other node)
ListingInput(d, idx, ver, ok) ==
    IF d.Root THEN <<"root", DOMAIN idx>>
    ELSE IF d.Folder
    THEN <<"folder", [f \in {g \in DOMAIN idx : d.ID = g.ID \/ d.ID = -1} |-> idx[f]]>>
    ELSE <<"directory", ver, ok>>

\* what a ReadDir run read and gave, kept for comparing two runs on a node;
\* again says that the run before it on this node read the same
ListingRecord(d, before, idx, ver, ok, out) ==
    [in |-> ListingInput(d, idx, ver, ok),
     again |-> before.in = ListingInput(d, idx, ver, ok),
     err |-> out.err,
     out |-> Range(out.entries),
     dkeys |-> DOMAIN out.dirs,
     fkeys |-> DOMAIN out.files]

\* the rest of call c on node call.node: the ReadDir run when load, then
\* for a Lookup the search of the two maps, and the return
Finish(c, call, load, ok) ==
    LET h == call.node
        d == nodes[h]
    IN  \E out \in {IF load THEN RunReadDir(d, artistsIndex, remoteVer, ok)
                    ELSE [entries |-> <<>>, err |-> "nil", dirs |-> d.dirs,
                          files |-> d.files]} :
        \E got \in {IF call.op = "Lookup" THEN Resolve(out.dirs, out.files, call.name)
                    ELSE [err |-> "nil", found |-> <<>>]} :
        \E given \in {IF got.found # <<>> /\ got.found[1] = "dir"
                      THEN got.found[2] ELSE [ref |-> -1, sub |-> d]} :
        /\ listings' = [listings EXCEPT ![h] =
                            IF load THEN ListingRecord(d, @, artistsIndex, remoteVer, ok, out)
                            ELSE @]
                       \o (IF given.ref = 0 THEN <<NoListing>> ELSE <<>>)
        /\ IF given.ref = 0
           THEN \* the first Lookup that returns this SubDir value
                /\ Len(nodes) < MaxNodes
                /\ nodes' = Append([nodes EXCEPT
                                       ![h].dirs = MapPut(out.dirs, call.name,
                                                          [given EXCEPT !.ref = Len(nodes) + 1]),
                                       ![h].files = out.files],
                                   given.sub)
                /\ known' = known \cup {Len(nodes) + 1}
           ELSE /\ nodes' = [nodes EXCEPT ![h].dirs = out.dirs, ![h].files = out.files]
                /\ UNCHANGED known
        /\ cret' = [cret EXCEPT ![c] =
                      IF call.op = "ReadDir"
                      THEN [op |-> "ReadDir", node |-> h, entries |-> out.entries,
                            err |-> out.err, name |-> <<>>, found |-> <<>>,
                            waited |-> cpc[c] = "ready"]
                      ELSE [op |-> "Lookup", node |-> h, entries |-> <<>>,
                            err |-> got.err, name |-> call.name,
                            waited |-> cpc[c] = "ready",
                            found |-> IF given.ref = 0 THEN <<"dir", Len(nodes) + 1>>
                                      ELSE IF given.ref > 0 THEN <<"dir", given.ref>>
                                      ELSE got.found]]
        /\ cpc' = [cpc EXCEPT ![c] = "idle"]
        /\ cop' = [cop EXCEPT ![c] = NoCall]

\* the kernel calls ReadDir on a node it holds.  The root goes on to its
\* wait or to its listing; any other node runs to the return.
ReadDir(c, h) ==
    /\ cpc[c] = "idle"
    /\ h \in known
    /\ IF nodes[h].Root
       THEN /\ cop' = [cop EXCEPT ![c] = [op |-> "ReadDir", node |-> h, name |-> <<>>]]
            /\ cpc' = [cpc EXCEPT ![c] = IF MustWait(artistsIndex) THEN "wait" ELSE "build"]
            /\ UNCHANGED <<nodes, known, cret, listings>>
       ELSE \E ok \in FetchOutcomes(nodes[h], TRUE) :
                Finish(c, [op |-> "ReadDir", node |-> h, name |-> <<>>], TRUE, ok)
    /\ UNCHANGED <<remoteVer, artistsIndex, ipc, itodo, icur, ipend, finished>>
    /\ UNCHANGED cacheVars

\* the kernel calls Lookup(name) on a node it holds
DirLookup(c, h, name) ==
    /\ cpc[c] = "idle"
    /\ h \in known
    /\ IF nodes[h].Root /\ NeedsLoad(nodes[h])
       THEN /\ cop' = [cop EXCEPT ![c] = [op |-> "Lookup", node |-> h, name |-> name]]
            /\ cpc' = [cpc EXCEPT ![c] = IF MustWait(artistsIndex) THEN "wait" ELSE "build"]
            /\ UNCHANGED <<nodes, known, cret, listings>>
       ELSE \E ok \in FetchOutcomes(nodes[h], NeedsLoad(nodes[h])) :
                Finish(c, [op |-> "Lookup", node |-> h, name |-> name],
                       NeedsLoad(nodes[h]), ok)
    /\ UNCHANGED <<remoteVer, artistsIndex, ipc, itodo, icur, ipend, finished>>
    /\ UNCHANGED cacheVars

\* <-indexChan meets indexChan <- true
IndexReady(c) ==
    /\ cpc[c] = "wait"
    /\ ipc = "send"
    /\ cpc' = [cpc EXCEPT ![c] = "ready"]
    /\ ipc' = "sleep"
    /\ UNCHANGED <<remoteVer, artistsIndex, itodo, icur, ipend, finished, nodes,
                   known, cop, cret, listings>>
    /\ UNCHANGED cacheVars

\* the root's listing, and the return of the call
RootBuild(c) ==
    /\ cpc[c] \in {"build", "ready"}
    /\ Finish(c, cop[c], TRUE, TRUE)
    /\ UNCHANGED <<remoteVer, artistsIndex, ipc, itodo, icur, ipend, finished>>
    /\ UNCHANGED cacheVars

\* ---- cacheIndexes ----

\* folders, err := subsonic.GetMusicFolders(); if err != nil { return }
GetMusicFolders ==
    /\ ipc = "folders"
    /\ \E ok \in BOOLEAN :
         IF ok
         THEN /\ itodo' = RemoteFolders(remoteVer)
              /\ ipc' = "range"
         ELSE /\ ipc' = "dead"
              /\ UNCHANGED itodo
    /\ UNCHANGED <<remoteVer, artistsIndex, icur, ipend, finished, nodes, known,
                   cpc, cop, cret, listings>>
    /\ UNCHANGED cacheVars

\* indexes, err := subsonic.GetIndexes(folder.ID, -1); on an error continue,
\* else artistsIndex[folder] = make([]gosubsonic.IndexArtist, 0)
GetIndexes ==
    /\ ipc = "range"
    /\ itodo # <<>>
    /\ \E ok \in BOOLEAN :
         IF ok
         THEN /\ artistsIndex' = MapPut(artistsIndex, Head(itodo), <<>>)
              /\ icur' = Head(itodo)
              /\ ipend' = RemoteArtists(Head(itodo), remoteVer)
              /\ ipc' = IF RemoteArtists(Head(itodo), remoteVer) = <<>>
                        THEN "range" ELSE "append"
         ELSE UNCHANGED <<artistsIndex, icur, ipend, ipc>>
    /\ itodo' = Tail(itodo)
    /\ UNCHANGED <<remoteVer, finished, nodes, known, cpc, cop, cret, listings>>
    /\ UNCHANGED cacheVars

\* artistsIndex[folder] = append(artistsIndex[folder], a)
AppendArtist ==
    /\ ipc = "append"
    /\ artistsIndex' = [artistsIndex EXCEPT ![icur] = Append(@, Head(ipend))]
    /\ ipend' = Tail(ipend)
    /\ ipc' = IF Tail(ipend) = <<>> THEN "range" ELSE "append"
    /\ UNCHANGED <<remoteVer, itodo, icur, finished, nodes, known, cpc, cop, cret,
                   listings>>
    /\ UNCHANGED cacheVars

\* log.Printf("Finished caching artists"), and on to indexChan <- true
RangeDone ==
    /\ ipc = "range"
    /\ itodo = <<>>
    /\ finished' = TRUE
    /\ ipc' = "send"
    /\ UNCHANGED <<remoteVer, artistsIndex, itodo, icur, ipend, nodes, known, cpc,
                   cop, cret, listings>>
    /\ UNCHANGED cacheVars

\* <-time.After(10 * time.Minute)
Timer ==
    /\ ipc = "sleep"
    /\ ipc' = "folders"
    /\ UNCHANGED <<remoteVer, artistsIndex, itodo, icur, ipend, finished, nodes,
                   known, cpc, cop, cret, listings>>
    /\ UNCHANGED cacheVars

\* the remote library changes
RemoteChange ==
    /\ remoteVer = 1
    /\ remoteVer' = 2
    /\ UNCHANGED <<artistsIndex, ipc, itodo, icur, ipend, finished, nodes, known,
                   cpc, cop, cret, listings>>
    /\ UNCHANGED cacheVars

\* ---- the mutating operations of SubDir ----

\* Create, Fsync, Link (lines 45-58) and Mkdir .. Symlink (lines 342-380)
MutatingOps ==
    {"Create", "Fsync", "Link", "Mkdir", "Mknod", "Remove", "Removexattr",
     "Rename", "Setattr", "Setxattr", "Symlink"}

Mutating_RemoveUnlinks(c, h, op) ==
    /\ cpc[c] = "idle"
    /\ h \in known
    /\ cret' = [cret EXCEPT ![c] =
                  [op |-> op, node |-> h, entries |-> <<>>, err |-> "EROFS",
                   name |-> <<>>, found |-> <<>>, waited |-> FALSE]]
    /\ IF op = "Remove" /\ DOMAIN nodes[h].dirs # {}
       THEN \E n \in DOMAIN nodes[h].dirs :
                nodes' = [nodes EXCEPT ![h].dirs = MapDelete(@, n)]
       ELSE UNCHANGED nodes
    /\ UNCHANGED <<remoteVer, artistsIndex, ipc, itodo, icur, ipend, finished,
                   known, cpc, cop, listings>>
    /\ UNCHANGED cacheVars

\* every one of them: return [nil,] fuse.Errno(syscall.EROFS)
Mutating(c, h, op) ==
    /\ cpc[c] = "idle"
    /\ h \in known
    /\ cret' = [cret EXCEPT ![c] =
                  [op |-> op, node |-> h, entries |-> <<>>, err |-> "EROFS",
                   name |-> <<>>, found |-> <<>>, waited |-> FALSE]]
    /\ UNCHANGED <<remoteVer, artistsIndex, ipc, itodo, icur, ipend, finished,
                   nodes, known, cpc, cop, listings>>
    /\ UNCHANGED cacheVars

vars == <<cacheVars, treeVars>>

Init == InitCache /\ InitTree

Next ==
    \/ \E r \in Reads, f \in Files : ReadAll(r, f)
    \/ \E r \in Reads : Lookup(r)
    \/ \E r \in Reads : ReadFile(r)
    \/ \E r \in Reads : Purge(r)
    \/ \E r \in Reads : SubAdd(r)
    \/ \E r \in Reads : SubStore(r)
    \/ \E r \in Reads : Stream(r)
    \/ \E r \in Reads : Deliver(r)
    \/ \E r \in Reads : Interrupt(r)
    \/ \E r \in Reads : ChkFull(r)
    \/ \E r \in Reads : ChkOverflow(r)
    \/ \E r \in Reads : TempFile(r)
    \/ \E r \in Reads : Register(r)
    \/ \E r \in Reads : AddAdd(r)
    \/ \E r \in Reads : AddStore(r)
    \/ \E p \in Reads : RemoveBacking(p)

Spec == Init /\ [][Next]_vars

\* Scheduling: a goroutine started by ReadAll takes its next step when it
\* can (a send on byteChan can be taken only while the requester receives);
\* interrupts, new reads and the removal of files are owed by nobody.
FairCache ==
    \A r \in Reads :
        /\ WF_vars(Lookup(r))
        /\ WF_vars(ReadFile(r))
        /\ WF_vars(Purge(r))
        /\ WF_vars(SubAdd(r))
        /\ WF_vars(SubStore(r))
        /\ WF_vars(Stream(r))
        /\ WF_vars(Deliver(r))
        /\ WF_vars(ChkFull(r))
        /\ WF_vars(ChkOverflow(r))
        /\ WF_vars(TempFile(r))
        /\ WF_vars(Register(r))
        /\ WF_vars(AddAdd(r))
        /\ WF_vars(AddStore(r))

SpecLive == Init /\ [][Next]_vars /\ FairCache

\* read r is between its two admission checks and the end of its write
Admitting(r) ==
    pc[r] \in {"chkOverflow", "tempFile", "register", "addAdd", "addStore"}

\* The runs in which the admissions of the reads do not overlap: a read
\* starts its checks only while no other read is between its checks and
\* its write.  Every other step interleaves freely.
NextAdmit ==
    \/ \E r \in Reads, f \in Files : ReadAll(r, f)
    \/ \E r \in Reads : Lookup(r)
    \/ \E r \in Reads : ReadFile(r)
    \/ \E r \in Reads : Purge(r)
    \/ \E r \in Reads : SubAdd(r)
    \/ \E r \in Reads : SubStore(r)
    \/ \E r \in Reads : Stream(r)
    \/ \E r \in Reads : Deliver(r)
    \/ \E r \in Reads : Interrupt(r)
    \/ \E r \in Reads : ChkFull(r) /\ \A q \in Reads \ {r} : ~Admitting(q)
    \/ \E r \in Reads : ChkOverflow(r)
    \/ \E r \in Reads : TempFile(r)
    \/ \E r \in Reads : Register(r)
    \/ \E r \in Reads : AddAdd(r)
    \/ \E r \in Reads : AddStore(r)
    \/ \E p \in Reads : RemoveBacking(p)

\* The cache two earlier reads left: fileA and then fileC were read and
\* admitted (Spec reaches this with a budget of 30 MB or more), and their
\* temporary files have since been removed from outside.
InitAdmit ==
    /\ cacheSize \in CacheSizes
    /\ fileCache = (fileA.FileName :> [path |-> MaxReads + 1, size |-> fileA.Size])
                   @@ (fileC.FileName :> [path |-> MaxReads + 2, size |-> fileC.Size])
    /\ cacheTotal = fileA.Size + fileC.Size
    /\ tmp = <<>>
    /\ panicked = FALSE
    /\ s = [r \in Reads |-> NoFile]
    /\ pc = [r \in Reads |-> "idle"]
    /\ req = [r \in Reads |-> "none"]
    /\ res = [r \in Reads |-> NoResult]
    /\ cFile = [r \in Reads |-> NoRecord]
    /\ buf = [r \in Reads |-> <<>>]
    /\ data = [r \in Reads |-> NIL]
    /\ new = [r \in Reads |-> 0]
    /\ streamCalls = [r \in Reads |-> 0]
    /\ logged = [r \in Reads |-> {}]
    /\ writes = [r \in Reads |-> 0]
    /\ InitTree

SpecAdmit == InitAdmit /\ [][NextAdmit]_vars

\* The refresher and the kernel's calls of ReadDir on the root.
NextIndex ==
    \/ \E c \in Calls : ReadDir(c, 1)
    \/ \E c \in Calls : IndexReady(c)
    \/ \E c \in Calls : RootBuild(c)
    \/ GetMusicFolders
    \/ GetIndexes
    \/ AppendArtist
    \/ RangeDone
    \/ Timer
    \/ RemoteChange

InitIndex == InitCache /\ InitTree /\ cacheSize = DefaultCacheSize

SpecIndex == InitIndex /\ [][NextIndex]_vars

\* The refresher next to the kernel's calls on the root and on the music
\* folder M, one call at a time.
NextRefresh ==
    \/ \E h \in Handles : ReadDir(1, h)
    \/ \E h \in Handles : DirLookup(1, h, <<"M">>)
    \/ IndexReady(1)
    \/ RootBuild(1)
    \/ GetMusicFolders
    \/ GetIndexes
    \/ AppendArtist
    \/ RangeDone
    \/ Timer
    \/ RemoteChange

SpecRefresh == InitIndex /\ [][NextRefresh]_vars

\* Scheduling: a goroutine that can take its next step takes it (the
\* refresher, and a call inside ReadDir); the kernel owes no call.
FairIndex ==
    /\ WF_vars(GetMusicFolders)
    /\ WF_vars(GetIndexes)
    /\ WF_vars(AppendArtist)
    /\ WF_vars(RangeDone)
    /\ WF_vars(Timer)
    /\ \A c \in Calls : WF_vars(IndexReady(c)) /\ WF_vars(RootBuild(c))

SpecIndexLive == InitIndex /\ [][NextIndex]_vars /\ FairIndex

\* The tree below a populated index: the state the first cycle of
\* cacheIndexes leaves (SpecIndex reaches it), the refresher asleep, the
\* kernel's calls served one at a time.
InitDirs ==
    /\ InitCache
    /\ cacheSize = DefaultCacheSize
    /\ remoteVer = 1
    /\ artistsIndex = [f \in {folderM} |-> RemoteArtists(f, 1)]
    /\ ipc = "sleep"
    /\ itodo = <<>>
    /\ icur = folderM
    /\ ipend = <<>>
    /\ finished = TRUE
    /\ nodes = <<NewSubDir(-1, TRUE, FALSE)>>
    /\ known = {1}
    /\ cpc = [c \in Calls |-> "idle"]
    /\ cop = [c \in Calls |-> NoCall]
    /\ cret = [c \in Calls |-> NoReturn]
    /\ listings = <<NoListing>>

NextTree ==
    \/ \E h \in Handles : ReadDir(1, h)
    \/ \E h \in Handles, name \in LookupNames : DirLookup(1, h, name)
    \/ RootBuild(1)
    \/ RemoteChange

SpecTree == InitDirs /\ [][NextTree]_vars

\* The tree with the mutating operations the kernel may send.
NextReadOnly ==
    \/ \E h \in Handles : ReadDir(1, h)
    \/ \E h \in Handles, name \in {<<"M">>, <<"a">>} : DirLookup(1, h, name)
    \/ RootBuild(1)
    \/ \E h \in Handles, op \in MutatingOps : Mutating(1, h, op)

SpecReadOnly == InitDirs /\ [][NextReadOnly]_vars

\* ------------------------------------------------------------------------
\* Properties of Part I
\* ------------------------------------------------------------------------

StreamErrors == {"openErr", "readErr", "closeErr"}

\* read r is between the two halves of an update of fileCache and cacheTotal
MidUpdate(r) == pc[r] \in {"subAdd", "subStore", "addAdd", "addStore"}

\* C1: whenever no read is in the middle of an update, cacheTotal equals the
\* sum of the sizes of the records registered in fileCache.
C1_CacheTotalIsSum ==
    (\A r \in Reads : ~MidUpdate(r)) => cacheTotal = CacheSum

\* C2: no record is ever registered under the name of a file whose declared
\* size is above 50 MB.
C2_LargeFileNameNeverCached ==
    \A f \in Files : f.Size > 50 * 1024 * 1024 => f.FileName \notin DOMAIN fileCache

\* C3: a read of an uncached file that finds cacheTotal + size above the
\* budget skips the cache: the requester has the remote bytes, and the read
\* made no write to fileCache or cacheTotal.
C3_SkipStep ==
    \A r \in Reads :
        (pc[r] = "chkOverflow" /\ pc'[r] # pc[r]
            /\ cacheTotal + s[r].Size > cacheSize * 1024 * 1024)
        => /\ pc'[r] = "done"
           /\ "File will overflow cache" \in logged'[r]
           /\ fileCache' = fileCache
           /\ cacheTotal' = cacheTotal

C3_Skipped ==
    \A r \in Reads :
        ("File will overflow cache" \in logged[r] /\ cFile[r] = NoRecord)
        => /\ pc[r] = "done"
           /\ res[r] = [data |-> RemoteBytes(s[r]), err |-> "nil"]
           /\ writes[r] = 0

C3_OverflowServedNotCached == [][C3_SkipStep]_vars /\ []C3_Skipped

C3_Witness ==
    \E r \in Reads :
        /\ "File will overflow cache" \in logged[r]
        /\ cFile[r] = NoRecord
        /\ cacheTotal > 0
        /\ res[r].err = "nil"

\* C4: a read that finds a cache record whose backing file is absent or
\* empty purges the record (and goes on to fetch from the remote service).
C4_StaleStep ==
    \A r \in Reads :
        (pc[r] = "readFile" /\ pc'[r] # pc[r]
            /\ (cFile[r].path \notin DOMAIN tmp \/ tmp[cFile[r].path] = <<>>))
        => /\ pc'[r] = "purge"
           /\ ~panicked'

C4_StaleRecordPurged == [][C4_StaleStep]_vars

\* C5: a read that finds a cache record whose backing file exists and is not
\* empty returns the backing file's bytes and never calls subsonic.Stream.
C5_HitStep ==
    \A r \in Reads :
        (pc[r] = "readFile" /\ pc'[r] # pc[r]
            /\ cFile[r].path \in DOMAIN tmp /\ tmp[cFile[r].path] # <<>>)
        => /\ pc'[r] = "sendHit"
           /\ data'[r] = tmp[cFile[r].path]

C5_Hit ==
    \A r \in Reads :
        "Cached file" \in logged[r]
        => /\ streamCalls[r] = 0
           /\ pc[r] \in {"sendHit", "done"}
           /\ res[r].err = "nil" => res[r].data = buf[r]

C6_StreamFailureIsError ==
    \A r \in Reads :
        (logged[r] \cap StreamErrors # {} /\ req[r] = "returned")
        => /\ res[r].err # "nil"
           /\ streamCalls[r] = 1
           /\ pc[r] \in {"sendNil", "done"}

\* C7: a requester whose intr fires while it waits returns EINTR, and every
\* step its goroutine takes afterwards changes cacheTotal by exactly the
\* change of the sum of the registered sizes.
C7_CancelStep ==
    \A r \in Reads :
        /\ (req[r] = "waiting" /\ req'[r] = "returned" /\ pc'[r] = pc[r])
           => res'[r] = [data |-> NIL, err |-> "EINTR"]
        /\ (res[r].err = "EINTR" /\ pc'[r] # pc[r])
           => cacheTotal' - cacheTotal = CacheSum' - CacheSum

C7_CancelKeepsCacheConsistent == [][C7_CancelStep]_vars

\* ------------------------------------------------------------------------
\* Properties of Part II
\* ------------------------------------------------------------------------

\* C8: a ReadDir run on a node that reads what the run before it on that
\* node read (the folders of the index for the root, the artists of its
\* folders for a music folder, the same remote directory for any other
\* node) returns the same set of (name, kind) pairs and the same error, and
\* leaves d.dirs and d.files with the keys the run before it left.
C8_RelistStep ==
    \A h \in 1..Len(nodes) :
        (listings[h] # NoListing /\ listings'[h].in = listings[h].in)
        => /\ listings'[h].out = listings[h].out
           /\ listings'[h].err = listings[h].err
           /\ listings'[h].dkeys = listings[h].dkeys
           /\ listings'[h].fkeys = listings[h].fkeys

C8_RelistIsIdempotent == [][C8_RelistStep]_vars

\* the root, a music folder and an artist's directory have each been listed
\* twice with nothing changed in between, the last two with entries
C8_Witness ==
    /\ \E h \in 1..Len(nodes) : nodes[h].Root /\ listings[h].again
    /\ \E h \in 1..Len(nodes) :
          /\ nodes[h].Folder
          /\ listings[h].again
          /\ listings[h].out # {}
    /\ \E h \in 1..Len(nodes) :
          /\ ~nodes[h].Root
          /\ ~nodes[h].Folder
          /\ listings[h].again
          /\ listings[h].err = "nil"
          /\ listings[h].fkeys # {}

\* the filename of the source of audio a
Rendered(a) ==
    Sanitize(ExecuteTemplate(a, [suffix |-> a.Suffix, size |-> a.Size]).out)

\* the remote directory the last ReadDir run on node h read
ContentRead(h) == RemoteDirectory(nodes[h].ID, listings[h].in[2])

\* the filenames two audio records of content render to
Colliding(content) ==
    {Rendered(content.Audio[i]) : i \in
        {i \in 1..Len(content.Audio) :
            \E j \in 1..Len(content.Audio) :
                j # i /\ Rendered(content.Audio[j]) = Rendered(content.Audio[i])}}

\* the audio record of content processed last among those rendering to name
LastRendered(content, name) ==
    content.Audio[CHOOSE i \in 1..Len(content.Audio) :
                     /\ Rendered(content.Audio[i]) = name
                     /\ \A j \in 1..Len(content.Audio) :
                            Rendered(content.Audio[j]) = name => j <= i]

\* C9: a listing returned for a directory in which two audio records render
\* to the same filename holds exactly one entry of that name, and a Lookup
\* of that name in the listed directory gives the record processed last.
C9_CollisionShowsOneEntry ==
    \A h \in 1..Len(nodes) :
        (~nodes[h].Root /\ ~nodes[h].Folder /\ listings[h] # NoListing
            /\ listings[h].err = "nil" /\ cret[1].node = h /\ cret[1].err = "nil")
        => \A name \in Colliding(ContentRead(h)) :
              /\ cret[1].op = "ReadDir"
                 => Cardinality({i \in 1..Len(cret[1].entries) :
                                    cret[1].entries[i].Name = name}) = 1
              /\ (cret[1].op = "Lookup" /\ cret[1].name = name)
                 => /\ cret[1].found[1] = "file"
                    /\ cret[1].found[2].ID = LastRendered(ContentRead(h), name).ID

\* C10 (the wait): a ReadDir of the root that finds artistsIndex empty goes
\* to the receive on indexChan; it leaves the receive only in the step in
\* which cacheIndexes, past its range over the folders, sends; and a call
\* past the receive implies that the first population is over.
C10_WaitStep ==
    \A c \in Calls :
        /\ (/\ cpc[c] = "idle"
            /\ cpc'[c] # "idle"
            /\ cop'[c].op = "ReadDir"
            /\ nodes[cop'[c].node].Root
            /\ DOMAIN artistsIndex = {})
           => cpc'[c] = "wait"
        /\ (cpc[c] = "wait" /\ cpc'[c] # "wait")
           => /\ finished
              /\ ipc = "send"
              /\ ipc' = "sleep"
              /\ cpc'[c] = "ready"

\* C10 (the result): the ReadDir of the root returns without error the
\* directory "All" and one directory per music folder of artistsIndex.
C10_ReturnStep ==
    \A c \in Calls :
        (cpc[c] \in {"build", "ready"} /\ cpc'[c] = "idle" /\ cop[c].op = "ReadDir")
        => /\ cret'[c].err = "nil"
           /\ Dirent(<<"A", "l", "l">>, "DT_Dir") \in Range(cret'[c].entries)
           /\ \A f \in DOMAIN artistsIndex :
                 Dirent(f.Name, "DT_Dir") \in Range(cret'[c].entries)

C10_RootWaitsForIndex ==
    /\ [][C10_WaitStep]_vars
    /\ [][C10_ReturnStep]_vars
    /\ [](\A c \in Calls : (cpc[c] = "ready" \/ cret[c].waited) => finished)

\* a ReadDir of the root that waited has returned "All" and the folder M
C10_Witness ==
    \E c \in Calls :
        /\ cret[c].op = "ReadDir"
        /\ cret[c].waited
        /\ Dirent(<<"A", "l", "l">>, "DT_Dir") \in Range(cret[c].entries)
        /\ Dirent(<<"M">>, "DT_Dir") \in Range(cret[c].entries)

\* C11: a cycle of cacheIndexes that has its folder list gets to the end of
\* the cycle and, after the interval, to the start of the next one, whether
\* or not a ReadDir of the root is waiting on indexChan.
C11_RefresherNeverBlocks == (ipc = "range") ~> (ipc = "folders")

\* C12: the step of cacheIndexes after subsonic.GetMusicFolders(), also
\* when the fetch failed, leaves the refresher running: it ranges over the
\* folders it got or waits for the interval before its next cycle.
C12_FolderFailureStep == ipc = "folders" => ipc' \in {"folders", "range", "sleep"}

C12_FolderFailureAbandonsOneCycle == [][C12_FolderFailureStep]_vars

\* the step in which a Lookup returns to the kernel
LookupReturns ==
    /\ cret'[1].op = "Lookup"
    /\ <<cret, listings, nodes>>' # <<cret, listings, nodes>>

\* node h has no listing that succeeded
NeverListed(h) == listings[h] = NoListing \/ listings[h].err # "nil"

\* the return of Lookup is what the node's two maps hold under the name:
\* the directory, else the file, else ENOENT
C13_Resolved ==
    LET r == cret'[1]
        d == nodes'[r.node]
    IN  IF r.name \in DOMAIN d.dirs
        THEN r.err = "nil" /\ r.found = <<"dir", d.dirs[r.name].ref>>
        ELSE IF r.name \in DOMAIN d.files
        THEN r.err = "nil" /\ r.found = <<"file", d.files[r.name]>>
        ELSE r.err = "ENOENT" /\ r.found = <<>>

\* a Lookup whose ReadDir run failed returns ENOENT
C13_FailedLoad ==
    LET h == cret'[1].node
    IN  (listings'[h] # listings[h] /\ listings'[h].err = "ENOENT")
        => cret'[1].err = "ENOENT"

\* a Lookup runs ReadDir only on a node never listed
C13_LoadsUnlisted ==
    LET h == cret'[1].node
    IN  listings'[h] # listings[h] => NeverListed(h)

\* C13: Lookup(name) on a directory node returns the child of that name
\* among the node's loaded children, runs ReadDir first only when the node
\* has never been listed, and returns ENOENT, and no other error, for a name
\* that is no child and for any name when the node's remote listing failed.
C13_LookupStep ==
    LookupReturns => C13_Resolved /\ C13_FailedLoad /\ C13_LoadsUnlisted

C13_LookupResolvesOrNotFound == [][C13_LookupStep]_vars

\* the step in which a mutating operation returns to the kernel
MutatingReturns ==
    /\ cret'[1].op \in MutatingOps
    /\ cpc[1] = "idle"
    /\ cpc'[1] = "idle"

\* C14: Create, Fsync, Link, Mkdir, Mknod, Remove, Removexattr, Rename,
\* Setattr, Setxattr and Symlink on a directory node each return EROFS and
\* change neither the tree (the nodes, their two maps, the index) nor
\* fileCache nor cacheTotal.
C14_MutatingStep ==
    MutatingReturns
    => /\ cret'[1].err = "EROFS"
       /\ UNCHANGED <<nodes, known, listings, artistsIndex>>
       /\ UNCHANGED <<fileCache, cacheTotal, tmp>>

C14_MutatingOpsRejected == [][C14_MutatingStep]_vars

\* Remove has returned EROFS on a node that has child directories
C14_Witness ==
    /\ cret[1].op = "Remove"
    /\ cret[1].err = "EROFS"
    /\ cret[1].node \in known
    /\ DOMAIN nodes[cret[1].node].dirs # {}

\* C15: right after a read's admitted write (the atomic add of its size to
\* cacheTotal, and the store of the sum) cacheTotal is at most the budget,
\* in the runs where no other read's admission falls between the read's
\* checks and its write.
C15_WriteStep ==
    \A r \in Reads :
        (pc[r] \in {"addAdd", "addStore"} /\ pc'[r] # pc[r]) => cacheTotal' <= Budget

C15_AdmittedWriteWithinBudget == [][C15_WriteStep]_vars

\* C16: a read whose admission checks end while cacheTotal is at or above
\* the budget is not admitted, whatever the Size of its file (0 included):
\* it does not go on to write the temporary file and register it.
C16_FullStep ==
    \A r \in Reads :
        (pc[r] = "chkOverflow" /\ pc'[r] # pc[r] /\ cacheTotal >= Budget)
        => pc'[r] = "done"

C16_FullCacheAdmitsNothing == [][C16_FullStep]_vars

\* C17: once a ReadDir run has filled an ordinary node from the remote
\* directory (also with nothing), no later ReadDir or Lookup on that node
\* runs the fetch again: the record of its last run stays as it is.
C17_LoadStep ==
    \A h \in 1..Len(nodes) :
        (~nodes[h].Root /\ ~nodes[h].Folder /\ listings[h] # NoListing
            /\ listings[h].err = "nil")
        => listings'[h] = listings[h]

C17_LoadedAtMostOnce == [][C17_LoadStep]_vars

\* C18: the goroutine every ReadAll starts comes to its end (or the process
\* dies), also when the requester returned on intr before the goroutine
\* sent on byteChan.
C18_FetchUnitTerminates ==
    \A r \in Reads : (pc[r] # "idle") ~> (pc[r] = "done" \/ panicked)

\* the suffixes of audio a that are present: the original, the transcoded
Variants(a) ==
    (IF a.Suffix # <<>> THEN {"original"} ELSE {})
    \cup (IF a.TranscodedSuffix # <<>> THEN {"transcoded"} ELSE {})

\* the names under which d.files holds an audio entry of record a
AudioEntries(d, a) ==
    {n \in DOMAIN d.files :
        d.files[n].ID = a.ID /\ ~d.files[n].IsVideo /\ ~d.files[n].IsArt}

\* C19: after a listing of an ordinary directory, with the default filename
\* template, d.files holds two entries for an audio record that has both
\* its suffix and its transcoded suffix, and one entry for a record that
\* has one of them (records whose filename another record of the directory
\* also renders to are left to C9).
C19_TwoVariantsTwoEntries ==
    \A h \in 1..Len(nodes) :
        (~nodes[h].Root /\ ~nodes[h].Folder /\ listings[h] # NoListing
            /\ listings[h].err = "nil")
        => \A i \in 1..Len(ContentRead(h).Audio) :
              LET a == ContentRead(h).Audio[i]
              IN  Rendered(a) \notin Colliding(ContentRead(h))
                  => Cardinality(AudioEntries(nodes[h], a)) = Cardinality(Variants(a))

\* the versions of the remote library
Versions == {1, 2}

\* C20: what a ReadDir run on a music folder reads of artistsIndex is, for
\* every folder it reads, the whole artist list some run of cacheIndexes
\* fetched for it: never the empty or half-appended list of a run under way.
C20_ListingSeesWholeLists ==
    \A h \in 1..Len(nodes) :
        (nodes[h].Folder /\ listings[h] # NoListing)
        => \A f \in DOMAIN listings[h].in[2] :
              \E v \in Versions : listings[h].in[2][f] = RemoteArtists(f, v)

\* C21: the bytes ReadAll returns without error for a SubFile are the
\* remote content of that SubFile's ID, on a cache hit as well, also when
\* another SubFile of the same FileName was cached before (a nil slice, the
\* return after a failed stream, is left to C6).
C21_ReadReturnsOwnContent ==
    \A r \in Reads :
        (req[r] = "returned" /\ res[r].err = "nil" /\ res[r].data # NIL)
        => res[r].data = RemoteBytes(s[r])

\* C22: cacheTotal is never negative.
C22_CacheTotalNotNegative == cacheTotal >= 0

\* the records of fileCache that hold the temporary file of path p
RecordsOf(p) == {n \in DOMAIN fileCache : fileCache[n].path = p}

\* C23: a temporary file a read created is, while it is on disk and once
\* the read is past the statement that registers it, the file of exactly
\* one record of fileCache.
C23_BackingFileReferencedOnce ==
    \A p \in DOMAIN tmp :
        (p \in Reads /\ pc[p] # "register") => Cardinality(RecordsOf(p)) = 1

\* C24: no name a ReadDir run returned (folder, artist, sub-directory,
\* audio, video or cover-art name) contains a "/" or a "\".
C24_NamesAreSingleSegments ==
    \A h \in 1..Len(nodes) :
        \A e \in listings[h].out :
            \A i \in 1..Len(e.Name) : e.Name[i] \notin {"/", "\\"}

====
